---- MODULE Spec2Model ----
(***************************************************************************)
(* Model of src/multilingual_bot.py: the subscription / payment state      *)
(* engine of the shop bot (users, subscriptions and payments tables, the   *)
(* trial grant, the demo purchase, the gateway confirmation) together with *)
(* the handler turns that drive it.                                        *)
(*                                                                         *)
(* Time is counted in whole days: datetime.now() is the variable now and   *)
(* timedelta(days=d) is the integer d.  A datetime written to sqlite and   *)
(* read back through datetime.fromisoformat is the same instant, so a      *)
(* stored timestamp is the integer itself.                                 *)
(*                                                                         *)
(* A handler is a coroutine: other handlers can run only while it is       *)
(* suspended at an await.  Each action below is the code between two       *)
(* awaits of one handler; the turn's pc is the await it is suspended at.   *)
(*                                                                         *)
(* Four specifications share the variables: Spec (the engine under         *)
(* concurrent turns, failures and the clock), NavSpec (every branch of     *)
(* button_handler, one turn at a time, two identities), PairSpec (two      *)
(* identities whose turns interleave) and StatusSpec                       *)
(* (get_subscription_status on every expiry and clock reading).            *)
(***************************************************************************)
EXTENDS Integers, Sequences, FiniteSets, TLC

\* ---------------------------------------------------------------- bounds
MaxSubs     == 2      \* rows the subscriptions table may hold
MaxInvoices == 1      \* invoices the gateway path may issue

UserIds == {1}                    \* identities that talk to the bot
Turns   == {1, 2}                 \* handler coroutines that may be in flight
RefArgs == {0, 1}                 \* k of a "/start ref<k>" argument
Instants == {0, 4}                \* the days at which the clock is read
LangInputs == {"ru"}              \* language codes of lang_<code> tokens

TicksPerDay == 4      \* the clock's resolution in the status runs
StatusHorizon == 3    \* days the status runs span

\* ------------------------------------------------------------- constants
\* SQL NULL / Python None in the timestamp column subscription_end.  The
\* clock counts from 0, so -1 is no timestamp.
NULL == -1
\* A Python int has no width.  The referrer is held as its sign and its
\* magnitude in three limbs of nine decimal digits,
\*   hi * 10^18 + mid * 10^9 + lo   with 0 <= mid, lo < 10^9;
\* zero has neg = FALSE.
PyInt(neg, hi, mid, lo) == [neg |-> neg, hi |-> hi, mid |-> mid, lo |-> lo]
\* The Python int that is the integer k.
PyIntOf(k) ==
  LET m == IF k < 0 THEN 0 - k ELSE k
  IN  PyInt(k < 0, 0, m \div 1000000000, m % 1000000000)
\* The magnitude of x is at most hi * 10^18 + mid * 10^9 + lo.
MagnitudeLeq(x, hi, mid, lo) ==
  \/ x.hi < hi
  \/ x.hi = hi /\ x.mid < mid
  \/ x.hi = hi /\ x.mid = mid /\ x.lo <= lo
\* sqlite3 binds a Python int to an INTEGER of 64 bits with a sign:
\* -2^63 .. 2^63 - 1, and 2^63 = 9 223372036 854775808.
FitsSqliteInteger(x) ==
  IF x.neg THEN MagnitudeLeq(x, 9, 223372036, 854775808)
  ELSE MagnitudeLeq(x, 9, 223372036, 854775807)

\* An optional integer (referrer_id: the parsed "/start ref<k>" argument,
\* the user_data entry, the users column) is None or Some(k), k a Python
\* int.
None == {}
Some(k) == {k}
TrialDays == 3
ReferredTrialDays == 7

\* TRANSLATIONS.keys(): the language table.
TRANSLATIONS == {"en", "ru", "hi", "ar"}
\* ADMIN_IDS = config.get("admin_ids", []): the deployment names identity 2.
ADMIN_IDS == {2}

\* PLANS (the catalog); Python's list index 0 is position 1 here.
PLANS_durations == {30, 60, 180, 365}
PLANS_plans ==
  << [name |-> "Basic",    devices |-> 1,
      prices |-> (30 :> 5  @@ 60 :> 9  @@ 180 :> 25 @@ 365 :> 45)],
     [name |-> "Standard", devices |-> 3,
      prices |-> (30 :> 10 @@ 60 :> 18 @@ 180 :> 50 @@ 365 :> 90)],
     [name |-> "Premium",  devices |-> 5,
      prices |-> (30 :> 15 @@ 60 :> 27 @@ 180 :> 75 @@ 365 :> 135)] >>

\* PLANS['plans'][i] succeeds for -len <= i < len (negative i counts from the end).
PlanIndexOk(i) == (0 - Len(PLANS_plans)) <= i /\ i < Len(PLANS_plans)
PlanAt(i) == PLANS_plans[(i % Len(PLANS_plans)) + 1]
\* plan['prices'][str(duration)] succeeds for the four catalog durations.
DurationOk(d) == d \in PLANS_durations
SelectionOk(i, d) == PlanIndexOk(i) /\ DurationOk(d)
PriceOf(i, d) == PlanAt(i).prices[d]

VARIABLES
  users,          \* table users: user_id -> row
  subscriptions,  \* table subscriptions: sequence of rows (id = position)
  payments,       \* table payments: sequence of rows
  user_data,      \* context.user_data: uid -> its 'referrer_id' entry, when set
  invoices,       \* invoices sent by send_invoice, in order
  now,            \* datetime.now()
  turn            \* the handler coroutines

vars == <<users, subscriptions, payments, user_data, invoices, now, turn>>

\* --------------------------------------------------------------- helpers
\* Python's truth value of an optional integer: None and 0 are false.
Truthy(x) == x # None /\ x # Some(PyIntOf(0))

\* A callback_data string.  prefix = FALSE: the data is the word verb and
\* nothing else ("plans", "plan").  prefix = TRUE: the data is verb, then
\* "_", then the fields the handler parses from the rest ("plan_0").
\* parses = FALSE: a field the handler hands to int() is not a number, or
\* the word count is not the one it unpacks.
NoToken == [verb |-> "none", prefix |-> FALSE, method |-> "none",
            plan_index |-> 0, duration |-> 0, lang |-> "none", parses |-> TRUE]
TrialToken == [NoToken EXCEPT !.verb = "trial"]
LangToken(l) == [NoToken EXCEPT !.verb = "lang", !.prefix = TRUE, !.lang = l]
PayToken(m, i, d) == [NoToken EXCEPT !.verb = "pay", !.prefix = TRUE, !.method = m,
                                     !.plan_index = i, !.duration = d]
\* "plans", "back_main", "change_lang", "about", "plan", ...: the word alone.
WordToken(w) == [NoToken EXCEPT !.verb = w]
PlanToken(i) == [NoToken EXCEPT !.verb = "plan", !.prefix = TRUE, !.plan_index = i]
DurToken(i, d) == [NoToken EXCEPT !.verb = "dur", !.prefix = TRUE,
                                  !.plan_index = i, !.duration = d]
\* "plan_x", "dur_0", "pay_card_0": the fields do not parse.
Malformed(w) == [NoToken EXCEPT !.verb = w, !.prefix = TRUE, !.parses = FALSE]

\* data == w
IsWord(tok, w) == tok.verb = w /\ ~tok.prefix
\* data.startswith(w + "_")
StartsWith(tok, w) == tok.verb = w /\ tok.prefix

\* What a message shows of get_subscription_status: none when the message
\* carries no status line.
NoStatus == [class |-> "none", days |-> 0]

\* keyboard: the callback_data of the buttons of the rendered reply_markup.
IdleTurn == [pc |-> "idle", uid |-> 0, data |-> NoToken,
             screen |-> "none", info |-> 0, keyboard |-> {}, status |-> NoStatus]

\* The three tables as one value: what a sqlite connection reads and writes.
DB == [users |-> users, subscriptions |-> subscriptions, payments |-> payments]

SetDB(d) ==
  /\ users' = d.users
  /\ subscriptions' = d.subscriptions
  /\ payments' = d.payments

\* Database.get_user: the row, or "no row".
UserExists(uid) == uid \in DOMAIN users

\* ------------------------------------------------------- what is shown
\* The length of timedelta(days=1) in the unit the clock is counted in.
WholeDay == 1

\* get_subscription_status on the stored expiry and the clock:
\*   if not user['subscription_end']: status_no_sub
\*   if sub_end < datetime.now():     status_expired          (read t1)
\*   days_left = (sub_end - datetime.now()).days              (read t2)
\* The function reads the clock twice, t1 <= t2; the second read happens
\* only when the first did not find the expiry lapsed.  timedelta.days is
\* the floor of the difference in days, negative when t2 is past the expiry.
StatusOf(sub_end, t1, t2, day) ==
  IF sub_end = NULL THEN [class |-> "no_sub", days |-> 0]
  ELSE IF sub_end < t1 THEN [class |-> "expired", days |-> 0]
  ELSE [class |-> "active", days |-> (sub_end - t2) \div day]

\* get_subscription_status(user_id): "if not user or ...".
GetSubscriptionStatus(us, uid, t1, t2, day) ==
  IF uid \notin DOMAIN us THEN [class |-> "no_sub", days |-> 0]
  ELSE StatusOf(us[uid].subscription_end, t1, t2, day)

\* The clock after get_subscription_status returned st: the second reading
\* when the function made it.
ClockAfterStatus(st, t1, t2) == IF st.class = "active" THEN t2 ELSE t1

\* get_language_keyboard: one lang_<code> button per entry of TRANSLATIONS.
GetLanguageKeyboard == {LangToken(l) : l \in TRANSLATIONS}

\* The two button lists of get_main_menu.
MenuBeforeTrial == {WordToken("trial"), WordToken("plans"), WordToken("about"),
                    WordToken("support"), WordToken("change_lang")}
MenuAfterTrial == {WordToken("plans"), WordToken("account"), WordToken("referrals"),
                   WordToken("promocode"), WordToken("help"), WordToken("support"),
                   WordToken("change_lang")}

\* (faulty variant: the trial button stays after the trial was used)
GetMainMenuKeepsTrial(us, uid) ==
  (IF uid \notin DOMAIN us \/ us[uid].is_trial_used = 0
   THEN MenuBeforeTrial ELSE MenuAfterTrial \cup {WordToken("trial")})
  \cup (IF uid \in ADMIN_IDS THEN {WordToken("admin")} ELSE {})

\* get_main_menu(user_id).
GetMainMenu(us, uid) ==
  (IF uid \notin DOMAIN us \/ us[uid].is_trial_used = 0
   THEN MenuBeforeTrial ELSE MenuAfterTrial)
  \cup (IF uid \in ADMIN_IDS THEN {WordToken("admin")} ELSE {})

\* The keyboards the handlers build themselves.
TrialKeyboard == {WordToken("plans"), WordToken("back_main")}
PlansKeyboard ==
  {PlanToken(j - 1) : j \in 1..Len(PLANS_plans)} \cup {WordToken("back_main")}
DurationsKeyboard(i) ==
  {DurToken(i, d) : d \in PLANS_durations} \cup {WordToken("plans")}
PaymentMethodsKeyboard(i, d) ==
  {PayToken("stars", i, d), PayToken("card", i, d), PayToken("crypto", i, d),
   PlanToken(i)}
DemoResultKeyboard == {WordToken("account"), WordToken("plans"), WordToken("referrals")}
GatewayResultKeyboard == {WordToken("account"), WordToken("plans")}

\* The turn p after its handler rendered a screen and awaits the send; data
\* stays the callback data it handled.
Rendered(p, uid, screen, keyboard, status) ==
  [turn EXCEPT ![p] = [IdleTurn EXCEPT !.pc = "render", !.uid = uid,
                         !.data = turn[p].data,
                         !.screen = screen, !.keyboard = keyboard,
                         !.status = status]]

Init ==
  /\ users = << >>
  /\ subscriptions = << >>
  /\ payments = << >>
  /\ user_data = << >>
  /\ invoices = << >>
  /\ now = 0
  /\ turn = [p \in Turns |-> IdleTurn]

\* ------------------------------------------------- sqlite transactions
\* A handler's connection sees its own writes; the tables change for the
\* others only at conn.commit().  A connection dropped without commit
\* (the handler raised) rolls its writes back.
Commit(committed, tx) == tx
\* (faulty variant: the connection in autocommit mode, every statement is kept)
RollbackKeepsWrites(committed, tx) == tx
Rollback(committed, tx) == committed

\* (faulty variant: a lapsed expiry is not replaced by the present moment)
CurrentEndNoClamp(d, uid, current_time) ==
  LET stored == IF uid \in DOMAIN d.users
                THEN d.users[uid].subscription_end ELSE NULL
  IN  IF stored # NULL THEN stored ELSE current_time

\* (faulty variant: the stored expiry is not read, every extension starts from now)
CurrentEndFromNow(d, uid, current_time) == current_time

\* process_payment / successful_payment_callback: the base of the extension.
\*   current_end = result[0] if result and result[0] else current_time
\*   if current_end < current_time: current_end = current_time
CurrentEnd(d, uid, current_time) ==
  LET stored == IF uid \in DOMAIN d.users
                THEN d.users[uid].subscription_end ELSE NULL
      current_end == IF stored # NULL THEN stored ELSE current_time
  IN  IF current_end < current_time THEN current_time ELSE current_end

\* new_end = current_end + timedelta(days=duration)
NewEnd(d, uid, current_time, duration) ==
  CurrentEnd(d, uid, current_time) + duration

\* (faulty variant: total_paid = ? in place of total_paid = total_paid + ?)
ExecUpdateUserOverwrite(d, uid, new_end, price) ==
  IF uid \in DOMAIN d.users
  THEN [d EXCEPT !.users[uid].subscription_end = new_end,
                 !.users[uid].total_paid = price]
  ELSE d

\* (faulty variant: the UPDATE has no WHERE clause)
ExecUpdateUserAllRows(d, uid, new_end, price) ==
  [d EXCEPT !.users = [v \in DOMAIN d.users |->
                         [d.users[v] EXCEPT !.subscription_end = new_end,
                                            !.total_paid = @ + price]]]

\* (faulty variant: a purchase marks the trial as used)
ExecUpdateUserMarksTrial(d, uid, new_end, price) ==
  IF uid \in DOMAIN d.users
  THEN [d EXCEPT !.users[uid].subscription_end = new_end,
                 !.users[uid].total_paid = @ + price,
                 !.users[uid].is_trial_used = 1]
  ELSE d

\* UPDATE users SET subscription_end = ?, total_paid = total_paid + ?
\*   WHERE user_id = ?          (no row, no change)
ExecUpdateUser(d, uid, new_end, price) ==
  IF uid \in DOMAIN d.users
  THEN [d EXCEPT !.users[uid].subscription_end = new_end,
                 !.users[uid].total_paid = @ + price]
  ELSE d

\* INSERT INTO subscriptions (...)
ExecInsertSubscription(d, row) ==
  [d EXCEPT !.subscriptions = Append(@, row)]

\* INSERT INTO payments (...)
ExecInsertPayment(d, row) ==
  [d EXCEPT !.payments = Append(@, row)]

SubscriptionRow(uid, i, duration, method, current_time, new_end, tag) ==
  [user_id |-> uid, plan_name |-> PlanAt(i).name, devices |-> PlanAt(i).devices,
   duration_days |-> duration, price |-> PriceOf(i, duration),
   payment_method |-> method,
   expires_at |-> new_end, config_url |-> tag]

\* (faulty variant: the status is left to the column default)
PaymentRowPending(uid, i, duration, charge_id) ==
  [user_id |-> uid, amount |-> PriceOf(i, duration), currency |-> "XTR",
   payment_method |-> "telegram_stars", payment_id |-> charge_id,
   status |-> "pending"]

PaymentRow(uid, i, duration, charge_id) ==
  [user_id |-> uid, amount |-> PriceOf(i, duration), currency |-> "XTR",
   payment_method |-> "telegram_stars", payment_id |-> charge_id,
   status |-> "completed"]

\* process_payment: its connection after the first n statements, 1 the
\* UPDATE of users, 2 the INSERT into subscriptions.
DemoTx(d, uid, i, duration, method, n) ==
  LET new_end == NewEnd(d, uid, now, duration)
      d1 == IF n >= 1 THEN ExecUpdateUser(d, uid, new_end, PriceOf(i, duration))
                      ELSE d
      d2 == IF n >= 2
            THEN ExecInsertSubscription(d1,
                   SubscriptionRow(uid, i, duration, method, now, new_end, "sub"))
            ELSE d1
  IN  d2

\* (faulty variant: the gateway path extends from the present moment)
GatewayCurrentEndFromNow(d, uid, current_time) == current_time

\* successful_payment_callback: its own copy of the base of the extension.
\*   current_end = result[0] if result and result[0] else current_time
\*   if current_end < current_time: current_end = current_time
GatewayCurrentEnd(d, uid, current_time) ==
  LET result == IF uid \in DOMAIN d.users
                THEN d.users[uid].subscription_end ELSE NULL
      current_end == IF result # NULL THEN result ELSE current_time
  IN  IF current_end < current_time THEN current_time ELSE current_end

\* successful_payment_callback: its connection after the first n
\* statements, 1 the UPDATE of users, 2 the INSERT into subscriptions,
\* 3 the INSERT into payments.
GatewayTx(d, uid, i, duration, charge_id, n) ==
  LET plan == PlanAt(i)
      price == plan.prices[duration]
      new_end == GatewayCurrentEnd(d, uid, now) + duration
      d1 == IF n >= 1 THEN ExecUpdateUser(d, uid, new_end, price) ELSE d
      d2 == IF n >= 2
            THEN ExecInsertSubscription(d1,
                   [user_id |-> uid, plan_name |-> plan.name,
                    devices |-> plan.devices, duration_days |-> duration,
                    price |-> price, payment_method |-> "telegram_stars",
                    expires_at |-> new_end, config_url |-> "paid"])
            ELSE d1
      d3 == IF n >= 3
            THEN ExecInsertPayment(d2, PaymentRow(uid, i, duration, charge_id))
            ELSE d2
  IN  d3

DemoStatements == 2
GatewayStatements == 3

\* ------------------------------------------------------------ the turns
\* Purchases in flight that have not reached their INSERT yet.
PendingDemo ==
  Cardinality({q \in Turns : turn[q].pc = "answered" /\ StartsWith(turn[q].data, "pay")
                             /\ turn[q].data.method # "stars"})
PendingStars ==
  Cardinality({q \in Turns : turn[q].pc = "answered" /\ StartsWith(turn[q].data, "pay")
                             /\ turn[q].data.method = "stars"})

\* The callback tokens of the runs: trial, lang_<code>, pay_card_2_60,
\* pay_stars_2_60 and pay_card_9_30 (a plan index the catalog lacks).
Tokens ==
  {TrialToken}
  \cup {LangToken(l) : l \in LangInputs}
  \cup {PayToken("card", 2, 60), PayToken("stars", 2, 60), PayToken("card", 9, 30)}

\* The statements after which an injected failure drops the connection.
DemoFailPoints == {1, 2}
GatewayFailPoints == {1, 2, 3}

\* A new coroutine takes the lowest free turn.
Free(p) == turn[p].pc = "idle" /\ \A q \in Turns : q < p => turn[q].pc # "idle"

\* The clock moves forward between any two steps.
Tick ==
  /\ \E t \in Instants : t > now /\ now' = t
  /\ UNCHANGED <<users, subscriptions, payments, user_data, invoices, turn>>

\* (faulty variant: start inserts the row of an identity it does not know)
StartCreatesUser(p, uid, arg, t2) ==
  /\ Free(p)
  /\ t2 >= now
  /\ IF uid \notin DOMAIN users
     THEN /\ users' = (uid :> [language_code |-> "en", referrer_id |-> arg,
                               subscription_end |-> NULL, is_trial_used |-> 0,
                               total_paid |-> 0]) @@ users
          /\ turn' = [turn EXCEPT ![p] = [IdleTurn EXCEPT !.pc = "render",
                        !.uid = uid, !.screen = "language_pick",
                        !.keyboard = {LangToken(l) : l \in TRANSLATIONS}]]
     ELSE /\ users' = users
          /\ turn' = [turn EXCEPT ![p] = [IdleTurn EXCEPT !.pc = "render",
                        !.uid = uid, !.screen = "welcome_back"]]
  /\ UNCHANGED <<subscriptions, payments, user_data, invoices, now>>

\* start: /start [ref<k>].  arg is referrer_id after the parse: Some(k),
\* or None with no argument or one int() rejects.  t2 is what the clock
\* gives get_subscription_status at its second reading.
Start(p, uid, arg, t2) ==
  /\ Free(p)
  /\ t2 >= now
  /\ LET referrer_id == arg
     IN  IF ~UserExists(uid)
         THEN /\ user_data' = IF Truthy(referrer_id)
                              THEN (uid :> referrer_id) @@ user_data
                              ELSE user_data
              /\ turn' = Rendered(p, uid, "language_pick", GetLanguageKeyboard,
                                   NoStatus)
              /\ now' = now
         ELSE LET status == GetSubscriptionStatus(users, uid, now, t2, WholeDay)
                IN  /\ user_data' = user_data
                    /\ turn' = Rendered(p, uid, "welcome_back",
                                         GetMainMenu(users, uid), status)
                    /\ now' = ClockAfterStatus(status, now, t2)
  /\ UNCHANGED <<users, subscriptions, payments, invoices>>

\* button_handler up to "await query.answer()".
Dispatch(p, uid, tok) ==
  /\ Free(p)
  /\ (StartsWith(tok, "pay") /\ tok.method # "stars")
        => Len(subscriptions) + PendingDemo < MaxSubs
  /\ (StartsWith(tok, "pay") /\ tok.method = "stars")
        => Len(invoices) + PendingStars < MaxInvoices
  /\ turn' = [turn EXCEPT ![p] = [IdleTurn EXCEPT !.pc = "answered",
                                    !.uid = uid, !.data = tok]]
  /\ UNCHANGED <<users, subscriptions, payments, user_data, invoices, now>>

\* The turn p after its handler raised.
Failed(p) ==
  [turn EXCEPT ![p] = [IdleTurn EXCEPT !.pc = "failed", !.uid = turn[p].uid,
                         !.screen = "error"]]

\* context.user_data.get('referrer_id', None)
UserDataGet(uid) == IF uid \in DOMAIN user_data THEN user_data[uid] ELSE None

\* The row Database.create_user inserts: the columns it names, the others
\* at their defaults.
NewUserRow(lang, referrer_id) ==
  [language_code |-> lang, referrer_id |-> referrer_id,
   subscription_end |-> NULL, is_trial_used |-> 0, total_paid |-> 0]

\* Database.create_user, cursor.execute: a referrer that no sqlite INTEGER
\* holds raises OverflowError when the parameters are bound.
CreateUserRaises(referrer_id) == \E k \in referrer_id : ~FitsSqliteInteger(k)

\* Database.create_user: INSERT OR IGNORE (a row that exists is kept);
\* nothing is written when the statement raises.
CreateUser(us, uid, lang, referrer_id) ==
  IF CreateUserRaises(referrer_id) THEN us
  ELSE IF uid \in DOMAIN us THEN us
  ELSE (uid :> NewUserRow(lang, referrer_id)) @@ us

\* (faulty variant: the row is written anew, INSERT OR REPLACE)
SetLanguageReplacesRow(us, uid, lang) ==
  IF uid \in DOMAIN us
  THEN [us EXCEPT ![uid] = NewUserRow(lang, us[uid].referrer_id)]
  ELSE us

\* Database.set_language: UPDATE users SET language_code = ? WHERE user_id = ?
SetLanguage(us, uid, lang) ==
  IF uid \in DOMAIN us THEN [us EXCEPT ![uid].language_code = lang] ELSE us

\* button_handler, data.startswith("lang_"): lang = data.split("_")[1],
\* whatever follows the prefix; it is not looked up in TRANSLATIONS.
\* When create_user raises the handler is over: nothing is rendered.
ButtonLang(p, t2) ==
  /\ t2 >= now
  /\ turn[p].pc = "answered"
  /\ StartsWith(turn[p].data, "lang")
  /\ LET uid == turn[p].uid
         lang == turn[p].data.lang
     IN  IF UserExists(uid)
         THEN LET us == SetLanguage(users, uid, lang)
                    status == GetSubscriptionStatus(us, uid, now, t2, WholeDay)
                IN  /\ users' = us
                    /\ turn' = Rendered(p, uid, "welcome_back",
                                         GetMainMenu(us, uid), status)
                    /\ now' = ClockAfterStatus(status, now, t2)
         ELSE LET referrer_id == UserDataGet(uid)
                  us == CreateUser(users, uid, lang, referrer_id)
              IN  /\ users' = us
                  /\ turn' = IF CreateUserRaises(referrer_id)
                              THEN Failed(p)
                              ELSE Rendered(p, uid, "welcome", GetMainMenu(us, uid),
                                            NoStatus)
                  /\ now' = now
  /\ UNCHANGED <<subscriptions, payments, user_data, invoices>>

\* button_handler, data == "change_lang".
ChangeLang(p) ==
  /\ turn[p].pc = "answered"
  /\ IsWord(turn[p].data, "change_lang")
  /\ turn' = Rendered(p, turn[p].uid, "language_pick", GetLanguageKeyboard, NoStatus)
  /\ UNCHANGED <<users, subscriptions, payments, user_data, invoices, now>>

\* (faulty variant: the flag is not looked at)
TrialUsedIgnored(row) == FALSE

\* handle_trial: user['is_trial_used']
TrialUsed(row) == row.is_trial_used # 0

\* (faulty variant: the referral bonus is dropped)
TrialDaysFlat(row) == TrialDays

\* handle_trial: days = 7 if user['referrer_id'] else 3
TrialDaysFor(row) ==
  IF Truthy(row.referrer_id) THEN ReferredTrialDays ELSE TrialDays

\* handle_trial.  With no users row, user['is_trial_used'] raises.
HandleTrial(p) ==
  /\ turn[p].pc = "answered"
  /\ IsWord(turn[p].data, "trial")
  /\ LET uid == turn[p].uid
     IN  IF ~UserExists(uid)
         THEN /\ users' = users
              /\ turn' = [turn EXCEPT ![p] = [IdleTurn EXCEPT !.pc = "failed",
                            !.uid = uid, !.screen = "error"]]
         ELSE IF TrialUsed(users[uid])
         THEN /\ users' = users
              /\ turn' = Rendered(p, uid, "trial_used", TrialKeyboard, NoStatus)
         ELSE LET days == TrialDaysFor(users[uid])
                  expires_at == now + days
              IN  /\ users' = [users EXCEPT ![uid].subscription_end = expires_at,
                                            ![uid].is_trial_used = 1]
                  /\ turn' = Rendered(p, uid, "trial_activated", TrialKeyboard,
                                       NoStatus)
  /\ UNCHANGED <<subscriptions, payments, user_data, invoices, now>>

\* process_payment: the catalog lookup raises on a selection out of range.
PaymentInvalid(p) ==
  /\ turn[p].pc = "answered"
  /\ StartsWith(turn[p].data, "pay")
  /\ turn[p].data.parses
  /\ ~SelectionOk(turn[p].data.plan_index, turn[p].data.duration)
  /\ turn' = [turn EXCEPT ![p] = [IdleTurn EXCEPT !.pc = "failed",
                !.uid = turn[p].uid, !.screen = "error"]]
  /\ UNCHANGED <<users, subscriptions, payments, user_data, invoices, now>>

\* (faulty variant: the entitlement is extended when the invoice is sent)
PaymentInvoiceGrants(p) ==
  /\ turn[p].pc = "answered"
  /\ StartsWith(turn[p].data, "pay")
  /\ turn[p].data.method = "stars"
  /\ turn[p].data.parses
  /\ SelectionOk(turn[p].data.plan_index, turn[p].data.duration)
  /\ invoices' = Append(invoices, [uid |-> turn[p].uid,
                                   plan_index |-> turn[p].data.plan_index,
                                   duration |-> turn[p].data.duration])
  /\ users' = ExecUpdateUser(DB, turn[p].uid,
                             NewEnd(DB, turn[p].uid, now, turn[p].data.duration),
                             PriceOf(turn[p].data.plan_index,
                                     turn[p].data.duration)).users
  /\ turn' = Rendered(p, turn[p].uid, "invoice", {}, NoStatus)
  /\ UNCHANGED <<subscriptions, payments, user_data, now>>

\* process_payment, method == "stars": the invoice is sent, nothing is stored.
PaymentInvoice(p) ==
  /\ turn[p].pc = "answered"
  /\ StartsWith(turn[p].data, "pay")
  /\ turn[p].data.method = "stars"
  /\ turn[p].data.parses
  /\ SelectionOk(turn[p].data.plan_index, turn[p].data.duration)
  /\ invoices' = Append(invoices, [uid |-> turn[p].uid,
                                   plan_index |-> turn[p].data.plan_index,
                                   duration |-> turn[p].data.duration])
  /\ turn' = Rendered(p, turn[p].uid, "invoice", {}, NoStatus)
  /\ UNCHANGED <<users, subscriptions, payments, user_data, now>>

\* process_payment, the demo payment: connect ... commit, with no await inside.
ProcessPayment(p) ==
  /\ turn[p].pc = "answered"
  /\ StartsWith(turn[p].data, "pay")
  /\ turn[p].data.method # "stars"
  /\ turn[p].data.parses
  /\ SelectionOk(turn[p].data.plan_index, turn[p].data.duration)
  /\ LET uid == turn[p].uid
         tok == turn[p].data
         tx == DemoTx(DB, uid, tok.plan_index, tok.duration, tok.method,
                      DemoStatements)
     IN  /\ SetDB(Commit(DB, tx))
         /\ turn' = Rendered(p, uid, "payment_success", DemoResultKeyboard, NoStatus)
  /\ UNCHANGED <<user_data, invoices, now>>

\* process_payment, the demo payment failing after n statements (n =
\* DemoStatements: conn.commit() fails): the connection is dropped.
ProcessPaymentFails(p, n) ==
  /\ turn[p].pc = "answered"
  /\ StartsWith(turn[p].data, "pay")
  /\ turn[p].data.method # "stars"
  /\ turn[p].data.parses
  /\ SelectionOk(turn[p].data.plan_index, turn[p].data.duration)
  /\ LET uid == turn[p].uid
         tok == turn[p].data
         tx == DemoTx(DB, uid, tok.plan_index, tok.duration, tok.method, n)
     IN  /\ SetDB(Rollback(DB, tx))
         /\ turn' = [turn EXCEPT ![p] = [IdleTurn EXCEPT !.pc = "failed",
                       !.uid = uid, !.data = tok, !.screen = "error", !.info = n]]
  /\ UNCHANGED <<user_data, invoices, now>>

\* successful_payment_callback for the payment of invoice k.  An invoice is
\* paid at most once and the charge id the gateway gives that payment is k;
\* the update that confirms it may be delivered more than once (a webhook
\* retry, a restart before the update is acknowledged), and each delivery
\* runs the handler.  No await before conn.commit().
SuccessfulPayment(p, k) ==
  /\ Free(p)
  /\ Len(subscriptions) + PendingDemo < MaxSubs
  /\ LET uid == invoices[k].uid
         i == invoices[k].plan_index
         duration == invoices[k].duration
         tx == GatewayTx(DB, uid, i, duration, k, GatewayStatements)
     IN  /\ SetDB(Commit(DB, tx))
         /\ turn' = [Rendered(p, uid, "payment_success", GatewayResultKeyboard,
                               NoStatus)
                        EXCEPT ![p].data = PayToken("telegram_stars", i, duration)]
  /\ UNCHANGED <<user_data, invoices, now>>

\* successful_payment_callback failing after n statements.
SuccessfulPaymentFails(p, k, n) ==
  /\ Free(p)
  /\ LET uid == invoices[k].uid
         i == invoices[k].plan_index
         duration == invoices[k].duration
         tx == GatewayTx(DB, uid, i, duration, k, n)
     IN  /\ SetDB(Rollback(DB, tx))
         /\ turn' = [turn EXCEPT ![p] = [IdleTurn EXCEPT !.pc = "failed",
                       !.uid = uid, !.screen = "error",
                       !.data = PayToken("telegram_stars", i, duration),
                       !.info = n]]
  /\ UNCHANGED <<user_data, invoices, now>>

\* button_handler, data == "plans": show_plans.
ShowPlans(p) ==
  /\ turn[p].pc = "answered"
  /\ IsWord(turn[p].data, "plans")
  /\ turn' = Rendered(p, turn[p].uid, "plans", PlansKeyboard, NoStatus)
  /\ UNCHANGED <<users, subscriptions, payments, user_data, invoices, now>>

\* button_handler, data.startswith("plan_"): show_durations(int(...)).
\* PLANS['plans'][plan_index] raises on an index the list does not take.
ShowDurations(p) ==
  /\ turn[p].pc = "answered"
  /\ StartsWith(turn[p].data, "plan")
  /\ turn[p].data.parses
  /\ LET i == turn[p].data.plan_index
     IN  turn' = IF PlanIndexOk(i)
                 THEN Rendered(p, turn[p].uid, "durations", DurationsKeyboard(i),
                               NoStatus)
                 ELSE Failed(p)
  /\ UNCHANGED <<users, subscriptions, payments, user_data, invoices, now>>

\* button_handler, data.startswith("dur_"): show_payment_methods.
ShowPaymentMethods(p) ==
  /\ turn[p].pc = "answered"
  /\ StartsWith(turn[p].data, "dur")
  /\ turn[p].data.parses
  /\ LET i == turn[p].data.plan_index
         d == turn[p].data.duration
     IN  turn' = IF SelectionOk(i, d)
                 THEN Rendered(p, turn[p].uid, "payment_methods",
                               PaymentMethodsKeyboard(i, d), NoStatus)
                 ELSE Failed(p)
  /\ UNCHANGED <<users, subscriptions, payments, user_data, invoices, now>>

\* button_handler, data == "back_main": back_to_main.
BackToMain(p, t2) ==
  /\ t2 >= now
  /\ turn[p].pc = "answered"
  /\ IsWord(turn[p].data, "back_main")
  /\ LET status == GetSubscriptionStatus(users, turn[p].uid, now, t2, WholeDay)
     IN  /\ turn' = Rendered(p, turn[p].uid, "welcome_back",
                              GetMainMenu(users, turn[p].uid), status)
         /\ now' = ClockAfterStatus(status, now, t2)
  /\ UNCHANGED <<users, subscriptions, payments, user_data, invoices>>

\* button_handler on plan_/dur_/pay_ data whose fields do not parse:
\* int() or the unpacking raises before any handler is called.
ButtonMalformed(p) ==
  /\ turn[p].pc = "answered"
  /\ \E w \in {"plan", "dur", "pay"} : StartsWith(turn[p].data, w)
  /\ ~turn[p].data.parses
  /\ turn' = Failed(p)
  /\ UNCHANGED <<users, subscriptions, payments, user_data, invoices, now>>

\* The data button_handler compares with ==, and the prefixes it tests
\* with startswith (each with its "_").
RoutedWords == {"change_lang", "trial", "plans", "back_main"}
RoutedPrefixes == {"lang", "plan", "dur", "pay"}
Routed(tok) ==
  \/ \E w \in RoutedWords : IsWord(tok, w)
  \/ \E w \in RoutedPrefixes : StartsWith(tok, w)

\* button_handler on data no branch matches: the if/elif chain falls
\* through and the handler returns, nothing is rendered.
ButtonUnrouted(p) ==
  /\ turn[p].pc = "answered"
  /\ ~Routed(turn[p].data)
  /\ turn' = [turn EXCEPT ![p] = IdleTurn]
  /\ UNCHANGED <<users, subscriptions, payments, user_data, invoices, now>>

\* The handler's last await (the render) returns, or its exception has been
\* logged: the coroutine is over.
Finish(p) ==
  /\ turn[p].pc \in {"render", "failed"}
  /\ turn' = [turn EXCEPT ![p] = IdleTurn]
  /\ UNCHANGED <<users, subscriptions, payments, user_data, invoices, now>>

Next ==
  \/ Tick
  \/ \E p \in Turns, uid \in UserIds, arg \in {Some(PyIntOf(k)) : k \in RefArgs} \cup {None},
         t2 \in Instants :
        Start(p, uid, arg, t2)
  \/ \E p \in Turns, uid \in UserIds, tok \in Tokens : Dispatch(p, uid, tok)
  \/ \E p \in Turns, t2 \in Instants : ButtonLang(p, t2)
  \/ \E p \in Turns : HandleTrial(p)
  \/ \E p \in Turns : PaymentInvalid(p)
  \/ \E p \in Turns : PaymentInvoice(p)
  \/ \E p \in Turns : ProcessPayment(p)
  \/ \E p \in Turns, n \in DemoFailPoints : ProcessPaymentFails(p, n)
  \/ \E p \in Turns, k \in 1..Len(invoices) : SuccessfulPayment(p, k)
  \/ \E p \in Turns, k \in 1..Len(invoices), n \in GatewayFailPoints :
        SuccessfulPaymentFails(p, k, n)
  \/ \E p \in Turns : Finish(p)

Spec == Init /\ [][Next]_vars

\* ------------------------------------------------- the navigation runs
\* One coroutine at a time, two identities (2 is the admin and the referrer
\* of "/start ref2"), and the callback data of every branch of
\* button_handler: the data the keyboards offer and data they never offer.
\* "/start ref-1" is the argument whose parse is the integer -1.  The clock
\* stands still in these runs: every reading gives now.
NavTurns == {1}
NavUserIds == {1, 2}
\* the k of "/start ref<k>": identity 1 names the admin, sends -1 or sends
\* 2^63 (9223372036854775808); identity 2 sends no argument.
NavRefArgs(uid) ==
  IF uid = 1
  THEN {PyIntOf(2), PyIntOf(-1), PyInt(FALSE, 9, 223372036, 854775808)}
  ELSE {}

NavTokens ==
  {TrialToken, LangToken("en"), LangToken("xx"),
   WordToken("change_lang"), WordToken("plans"), WordToken("back_main"),
   WordToken("about"), WordToken("nosuch"), WordToken("plan"), WordToken("lang"),
   PlanToken(2), PlanToken(-1), PlanToken(3), Malformed("plan"),
   DurToken(2, 60), DurToken(2, 45), DurToken(-4, 60),
   PayToken("card", 2, 60), PayToken("card", -1, 60), PayToken("card", 3, 60),
   PayToken("card", 2, 45), PayToken("stars", -1, 60), PayToken("stars", 2, 60)}

\* The admin's data in these runs.
AdminTokens == {TrialToken, LangToken("en"), WordToken("back_main")}

NavNext ==
  \/ \E p \in NavTurns, uid \in NavUserIds :
        \E arg \in {Some(k) : k \in NavRefArgs(uid)} \cup {None} :
          Start(p, uid, arg, now)
  \/ \E p \in NavTurns, uid \in NavUserIds :
        \E tok \in (IF uid \in ADMIN_IDS THEN AdminTokens ELSE NavTokens) :
          Dispatch(p, uid, tok)
  \/ \E p \in NavTurns : ButtonLang(p, now)
  \/ \E p \in NavTurns : ChangeLang(p)
  \/ \E p \in NavTurns : HandleTrial(p)
  \/ \E p \in NavTurns : ShowPlans(p)
  \/ \E p \in NavTurns : ShowDurations(p)
  \/ \E p \in NavTurns : ShowPaymentMethods(p)
  \/ \E p \in NavTurns : ButtonMalformed(p)
  \/ \E p \in NavTurns : PaymentInvalid(p)
  \/ \E p \in NavTurns : PaymentInvoice(p)
  \/ \E p \in NavTurns : ProcessPayment(p)
  \/ \E p \in NavTurns, k \in 1..Len(invoices) : SuccessfulPayment(p, k)
  \/ \E p \in NavTurns : BackToMain(p, now)
  \/ \E p \in NavTurns : ButtonUnrouted(p)
  \/ \E p \in NavTurns : Finish(p)

NavSpec == Init /\ [][NavNext]_vars

\* ------------------------------------------------ the two-identity runs
\* Two identities whose turns interleave at the awaits.  Identity 1 starts
\* with "/start ref2", selects a language, asks for the trial and buys, on
\* the demo path (which may fail at a statement) and through the gateway;
\* identity 2 selects a language and asks for the trial.
PairTokens(uid) ==
  IF uid = 1
  THEN {TrialToken, LangToken("en"), PayToken("card", 2, 60), PayToken("stars", 2, 60)}
  ELSE {TrialToken, LangToken("en")}
PairFailPoints == {1}

PairNext ==
  \/ \E p \in Turns : Start(p, 1, Some(PyIntOf(2)), now)
  \/ \E p \in Turns, uid \in NavUserIds :
        \E tok \in PairTokens(uid) : Dispatch(p, uid, tok)
  \/ \E p \in Turns : ButtonLang(p, now)
  \/ \E p \in Turns : HandleTrial(p)
  \/ \E p \in Turns : PaymentInvoice(p)
  \/ \E p \in Turns : ProcessPayment(p)
  \/ \E p \in Turns, n \in PairFailPoints : ProcessPaymentFails(p, n)
  \/ \E p \in Turns, k \in 1..Len(invoices) : SuccessfulPayment(p, k)
  \/ \E p \in Turns : Finish(p)

PairSpec == Init /\ [][PairNext]_vars

\* ----------------------------------------------------- the status runs
\* get_subscription_status on every pair of a stored expiry and a clock
\* reading.  In these runs the clock and the stored expiry are counted in
\* ticks, TicksPerDay of them to a day, so that expiry - now is not always
\* a whole number of days.  A row with an expiry is a row whose trial was
\* granted (the expiry is then the grant's instant plus the trial days).
StatusTicks == 0..(StatusHorizon * TicksPerDay)

StatusRows ==
  {NewUserRow("en", None)}
  \cup {[NewUserRow("en", None) EXCEPT !.subscription_end = e, !.is_trial_used = 1] :
          e \in StatusTicks}

StatusInit ==
  /\ users \in {<< >>} \cup {(1 :> row) : row \in StatusRows}
  /\ subscriptions = << >>
  /\ payments = << >>
  /\ user_data = << >>
  /\ invoices = << >>
  /\ now \in StatusTicks
  /\ turn = [p \in Turns |-> IdleTurn]

StatusTick ==
  /\ now + 1 \in StatusTicks
  /\ now' = now + 1
  /\ UNCHANGED <<users, subscriptions, payments, user_data, invoices, turn>>

\* back_to_main (the status line and the main menu), the clock in ticks.
StatusBackToMain(p, uid) ==
  /\ Free(p)
  /\ \E t2 \in {t \in StatusTicks : t >= now} :
       LET status == GetSubscriptionStatus(users, uid, now, t2, TicksPerDay)
       IN  /\ turn' = Rendered(p, uid, "welcome_back", GetMainMenu(users, uid),
                                status)
           /\ now' = ClockAfterStatus(status, now, t2)
  /\ UNCHANGED <<users, subscriptions, payments, user_data, invoices>>

StatusNext ==
  \/ StatusTick
  \/ \E p \in NavTurns, uid \in UserIds : StatusBackToMain(p, uid)
  \/ \E p \in NavTurns : Finish(p)

StatusSpec == StatusInit /\ [][StatusNext]_vars

\* =================================================================
\* Properties
\* =================================================================
Max(a, b) == IF a < b THEN b ELSE a

\* The trial body of turn p runs in this step.
TrialRuns(p) ==
  /\ turn[p].pc = "answered"
  /\ turn[p].data.verb = "trial"
  /\ turn'[p].pc # "answered"

\* Turn p completes a purchase in this step (demo or gateway).
PurchaseDone(p) ==
  /\ turn[p].pc # "render"
  /\ turn'[p].pc = "render"
  /\ turn'[p].screen = "payment_success"

\* The catalog's price of a plan name and a duration.
CatalogPrice(name, d) ==
  (CHOOSE pl \in {PLANS_plans[j] : j \in 1..Len(PLANS_plans)} : pl.name = name).prices[d]

\* One row is appended to a table and the rows it held stay as they were.
AppendsOne(old, new) ==
  /\ Len(new) = Len(old) + 1
  /\ SubSeq(new, 1, Len(old)) = old

GatewaySubs(u) ==
  {j \in 1..Len(subscriptions) : subscriptions[j].user_id = u
                                 /\ subscriptions[j].payment_method = "telegram_stars"}
GatewayPayments(u) ==
  {j \in 1..Len(payments) : payments[j].user_id = u
                            /\ payments[j].payment_method = "telegram_stars"
                            /\ payments[j].status = "completed"}

\* C1: the trial-used flag of a user never goes back from true to false (so
\* it goes false->true at most once), and a trial request handled when the
\* flag is already true renders 'trial_used' and leaves the user's
\* subscription_end and flag as they were.
C1_TrialAtMostOnce ==
  [][ /\ \A u \in DOMAIN users :
           users[u].is_trial_used # 0 => (u \in DOMAIN users' /\ users'[u].is_trial_used # 0)
      /\ \A p \in Turns :
           (TrialRuns(p) /\ UserExists(turn[p].uid) /\ users[turn[p].uid].is_trial_used # 0)
           => /\ turn'[p].screen = "trial_used"
              /\ users'[turn[p].uid] = users[turn[p].uid] ]_vars

\* C1 witness: a second trial request of a user was answered 'already used'.
C1_Witness ==
  \E p \in Turns :
    /\ turn[p].pc = "render"
    /\ turn[p].screen = "trial_used"
    /\ UserExists(turn[p].uid)
    /\ users[turn[p].uid].is_trial_used = 1

\* C2: extension stacking law, on both paths: a step that appends a
\* subscription row of duration d for an existing user with expiry E sets the
\* user's expiry to E + d when now < E, and to now + d when E is absent or
\* now >= E.
C2_StackingLaw ==
  [][ \A p \in Turns :
        (PurchaseDone(p) /\ UserExists(turn'[p].uid))
        => LET u == turn'[p].uid
               E == users[u].subscription_end
               d == subscriptions'[Len(subscriptions')].duration_days
           IN  /\ Len(subscriptions') = Len(subscriptions) + 1
               /\ (E # NULL /\ now < E) => users'[u].subscription_end = E + d
               /\ (E = NULL \/ now >= E) => users'[u].subscription_end = now + d
               /\ users'[u].subscription_end >= now + d ]_vars

\* C2 witness: a trial that ended on day 3; on day 4 a gateway purchase of 60
\* days restarts from now (64, not 63) and a demo purchase then stacks on it.
C2_Witness ==
  /\ now = 4
  /\ Len(subscriptions) = 2
  /\ subscriptions[1].payment_method = "telegram_stars"
  /\ subscriptions[1].expires_at = 64
  /\ subscriptions[2].payment_method = "card"
  /\ subscriptions[2].expires_at = 124
  /\ UserExists(1)
  /\ users[1].subscription_end = 124

\* C3: a completed purchase (demo or gateway) of an existing user appends
\* exactly one subscription row, of that user and of the chosen plan and
\* duration, whose expiry is the user's new subscription_end, and adds the
\* catalog price of that plan and duration to the user's total_paid.
C3_PurchaseRecorded ==
  [][ \A p \in Turns :
        (PurchaseDone(p) /\ UserExists(turn'[p].uid))
        => LET u == turn'[p].uid
               row == subscriptions'[Len(subscriptions')]
           IN  /\ AppendsOne(subscriptions, subscriptions')
               /\ row.user_id = u
               /\ row.expires_at = users'[u].subscription_end
               /\ row.price = CatalogPrice(row.plan_name, row.duration_days)
               /\ users'[u].total_paid = users[u].total_paid + row.price
               /\ IF turn[p].pc = "answered"
                  THEN /\ row.plan_name = PLANS_plans[turn[p].data.plan_index + 1].name
                       /\ row.duration_days = turn[p].data.duration
                  ELSE \E k \in 1..Len(invoices) :
                         /\ invoices[k].uid = u
                         /\ row.plan_name = PLANS_plans[invoices[k].plan_index + 1].name
                         /\ row.duration_days = invoices[k].duration ]_vars

\* C3 witness: a user whose trial runs to day 3 bought Premium for 60 days on
\* day 0 and then once more: two rows, total_paid 27 + 27, expiry 3 + 60 + 60.
C3_Witness ==
  /\ UserExists(1)
  /\ Len(subscriptions) = 2
  /\ users[1].total_paid = 54
  /\ users[1].subscription_end = 123
  /\ subscriptions[2].expires_at = 123
  /\ \E p \in Turns : turn[p].pc = "render" /\ turn[p].screen = "payment_success"

\* C4: referral bonus law: a step that grants the trial (the flag goes
\* false->true) sets the user's expiry to now + 7 when the user's referrer_id
\* is set and to now + 3 when it is not.
C4_ReferralBonus ==
  [][ \A u \in DOMAIN users :
        (users[u].is_trial_used = 0 /\ u \in DOMAIN users' /\ users'[u].is_trial_used # 0)
        => users'[u].subscription_end
             = now + (IF users[u].referrer_id # {} THEN 7 ELSE 3) ]_vars

\* C4 witness: a referred user was granted the trial: 7 days from now.
C4_Witness ==
  \E p \in Turns :
    /\ turn[p].pc = "render"
    /\ turn[p].screen = "trial_activated"
    /\ UserExists(turn[p].uid)
    /\ users[turn[p].uid].referrer_id # {}
    /\ users[turn[p].uid].subscription_end = now + 7

\* Turn p is a gateway confirmation that fails in this step after n statements.
GatewayFailsAt(p, n) ==
  /\ turn[p].pc = "idle"
  /\ turn'[p].pc = "failed"
  /\ turn'[p].data.method = "telegram_stars"
  /\ turn'[p].info = n

\* C5: gateway-path atomicity: when a gateway confirmation fails between the
\* INSERT into subscriptions and the INSERT into payments, the tables hold
\* neither the subscription row nor the payment row afterwards.
C5_GatewayAtomic ==
  [][ \A p \in Turns :
        GatewayFailsAt(p, 2)
        => /\ subscriptions' = subscriptions
           /\ payments' = payments ]_vars

\* C5 witness: a gateway confirmation failed after its subscription INSERT.
C5_Witness ==
  \E p \in Turns :
    /\ turn[p].pc = "failed"
    /\ turn[p].data.method = "telegram_stars"
    /\ turn[p].info = 2
    /\ UserExists(turn[p].uid)

\* C6: each gateway payment is recorded exactly once: however often its
\* confirmation is delivered, at most one payment row carries its charge id
\* and a user has no more gateway subscription rows than gateway payments made.
C6_ExactlyOnce ==
  \A u \in DOMAIN users :
    /\ \A k \in 1..Len(invoices) :
         Cardinality({j \in 1..Len(payments) : payments[j].user_id = u
                                               /\ payments[j].payment_id = k}) <= 1
    /\ Cardinality(GatewaySubs(u))
         <= Cardinality({k \in 1..Len(invoices) : invoices[k].uid = u})

\* Another purchase of user u, not turn p's, is in flight.
RivalPurchase(p, u) ==
  \E q \in Turns :
    /\ q # p
    /\ turn[q].uid = u
    /\ \/ /\ turn[q].pc = "answered"
          /\ turn[q].data.verb = "pay"
          /\ turn[q].data.prefix
          /\ turn[q].data.method # "stars"
          /\ SelectionOk(turn[q].data.plan_index, turn[q].data.duration)
       \/ /\ turn[q].pc = "render"
          /\ turn[q].screen = "payment_success"

\* C7: no lost update between concurrent purchases: a purchase of user u
\* completed while another purchase of u is in flight extends the expiry that
\* is stored at that moment (or now, when that is absent or past), adds its
\* price to the total_paid stored at that moment and appends its own row, so
\* the two together leave both durations, both prices and two rows.
C7_NoLostUpdate ==
  [][ \A p \in Turns :
        (PurchaseDone(p) /\ UserExists(turn'[p].uid)
           /\ RivalPurchase(p, turn'[p].uid))
        => LET u == turn'[p].uid
               E == users[u].subscription_end
               row == subscriptions'[Len(subscriptions')]
           IN  /\ AppendsOne(subscriptions, subscriptions')
               /\ users'[u].subscription_end
                    = Max(IF E = NULL THEN now ELSE E, now) + row.duration_days
               /\ users'[u].total_paid = users[u].total_paid + row.price ]_vars

\* C7 witness: two purchases of user 1 are in flight together, both completed:
\* two rows, both prices, both durations.
C7_Witness ==
  /\ \A p \in Turns :
       turn[p].pc = "render" /\ turn[p].screen = "payment_success" /\ turn[p].uid = 1
  /\ UserExists(1)
  /\ Len(subscriptions) = 2
  /\ users[1].total_paid = 54
  /\ users[1].subscription_end = now + 120

\* C8: two trial requests of one identity in flight together are never both
\* granted.
C8_NoDoubleGrant ==
  \A p, q \in Turns :
    (p # q /\ turn[p].uid = turn[q].uid
       /\ turn[p].pc = "render" /\ turn[q].pc = "render"
       /\ turn[p].screen = "trial_activated")
    => turn[q].screen # "trial_activated"

\* C8 witness: of two trial requests of one identity in flight together one
\* was granted and the other answered 'already used'.
C8_Witness ==
  \E p, q \in Turns :
    /\ p # q
    /\ turn[p].uid = turn[q].uid
    /\ turn[p].pc = "render" /\ turn[p].screen = "trial_activated"
    /\ turn[q].pc = "render" /\ turn[q].screen = "trial_used"

\* C9: every trial grant appends exactly one subscription row, and no step
\* changes a row the table already holds.
C9_GrantAppendsRow ==
  [][ /\ \A u \in DOMAIN users :
           (users[u].is_trial_used = 0 /\ u \in DOMAIN users' /\ users'[u].is_trial_used # 0)
           => AppendsOne(subscriptions, subscriptions')
      /\ Len(subscriptions') >= Len(subscriptions)
      /\ SubSeq(subscriptions', 1, Len(subscriptions)) = subscriptions ]_vars

\* C10: gateway payments and gateway subscriptions are paired: every user has
\* as many completed telegram_stars payment rows as telegram_stars
\* subscription rows.
C10_GatewayPaired ==
  \A u \in UserIds :
    Cardinality(GatewayPayments(u)) = Cardinality(GatewaySubs(u))

\* C10 witness: a gateway confirmation stored its payment row, with the
\* gateway's charge id, and its subscription row.
C10_Witness ==
  /\ UserExists(1)
  /\ users[1].total_paid = 27
  /\ Cardinality(GatewayPayments(1)) = 1
  /\ Cardinality(GatewaySubs(1)) = 1
  /\ payments[1].payment_id = 1
  /\ payments[1].status = "completed"

\* Turn p renders a message that carries a status line in this step.
ShowsStatus(p) ==
  /\ turn[p].pc # "render"
  /\ turn'[p].pc = "render"
  /\ turn'[p].status.class # "none"

\* C11: the status shown is a function of the stored expiry and the clock
\* alone and falls in exactly one of three classes: NoSubscription exactly
\* when no expiry is stored, Expired exactly when the expiry is before now,
\* Active otherwise (an expiry equal to now included), and then daysLeft is
\* the whole number of days in expiry - now.
\* "now" is any one instant of the call, from the clock when the handler
\* starts (now) to the clock when it has rendered (now').
C11_StatusClasses ==
  [][ \A p \in Turns :
        ShowsStatus(p) =>
          LET e == IF turn'[p].uid \in DOMAIN users'
                   THEN users'[turn'[p].uid].subscription_end ELSE NULL
              st == turn'[p].status
          IN  \E t \in now..now' :
                /\ st.class \in {"no_sub", "expired", "active"}
                /\ st.class = "no_sub" <=> e = NULL
                /\ st.class = "expired" <=> (e # NULL /\ e < t)
                /\ st.class = "active" <=> (e # NULL /\ e >= t)
                /\ st.class = "active" =>
                      /\ st.days * TicksPerDay <= e - t
                      /\ e - t < (st.days + 1) * TicksPerDay ]_vars

\* The handler body of turn p (the code after "await query.answer()") runs
\* in this step.
BodyRuns(p) == turn[p].pc = "answered" /\ turn'[p] # turn[p]

\* The gateway's confirmation is handled by turn p in this step.
GatewayRuns(p) ==
  /\ turn[p].pc = "idle"
  /\ turn'[p].pc # "idle"
  /\ turn'[p].data.verb = "pay"

TablesUnchanged ==
  /\ users' = users
  /\ subscriptions' = subscriptions
  /\ payments' = payments

\* A selection the catalog does not hold: the plan index is not one of the
\* positions 0, 1, 2 of the plan list, or the duration (where the data
\* carries one) is not one of 30, 60, 180, 365.
OutOfCatalog(tok) ==
  \/ tok.plan_index \notin 0..2
  \/ tok.verb \in {"dur", "pay"} /\ tok.duration \notin {30, 60, 180, 365}

\* C12: a plan_<i>, dur_<i>_<d> or pay_<m>_<i>_<d> token, or a gateway
\* payload, whose plan index is not a position of the catalog's plan list
\* (any integer outside 0..2, negative values included) or whose duration is
\* not a catalog duration fails as an invalid selection and leaves the user
\* record, the subscription history and the payment history unchanged.
C12_InvalidSelectionFails ==
  [][ \A p \in Turns :
        /\ (BodyRuns(p) /\ turn[p].data.verb \in {"plan", "dur", "pay"}
                        /\ turn[p].data.prefix /\ turn[p].data.parses /\ OutOfCatalog(turn[p].data))
              => (turn'[p].pc = "failed" /\ TablesUnchanged /\ invoices' = invoices)
        /\ (GatewayRuns(p) /\ OutOfCatalog(turn'[p].data))
              => (turn'[p].pc = "failed" /\ TablesUnchanged) ]_vars

\* A token the handler has no route for: data that is none of the four
\* words and starts with none of the four prefixes ("plan" alone is such
\* data), fields that do not parse, or a language selection naming a
\* language that is not in the language table.
Unroutable(tok) ==
  \/ ~tok.prefix /\ tok.verb \notin {"change_lang", "trial", "plans", "back_main"}
  \/ tok.prefix /\ tok.verb \notin {"lang", "plan", "dur", "pay"}
  \/ ~tok.parses
  \/ tok.prefix /\ tok.verb = "lang" /\ tok.lang \notin {"en", "ru", "hi", "ar"}

\* C13: handling an unknown or malformed token (a language selection naming
\* a language outside the language table included) changes no user,
\* subscription or payment record, and never creates a user.
C13_UnroutableChangesNothing ==
  [][ \A p \in Turns :
        (BodyRuns(p) /\ Unroutable(turn[p].data))
          => (TablesUnchanged /\ DOMAIN users' = DOMAIN users) ]_vars

\* Turn p renders the main menu in this step.
ShowsMainMenu(p) ==
  /\ turn[p].pc # "render"
  /\ turn'[p].pc = "render"
  /\ turn'[p].screen \in {"welcome", "welcome_back"}

\* C14: the options of the main menu depend only on the trial-used flag and
\* on admin membership: with the flag false (or no record) exactly Trial,
\* Buy, About, Support, Language; with the flag true exactly Buy, Account,
\* Referral, Promo, Help, Support, Language; an admin identity gets Admin in
\* addition in both cases, and nobody else does.
C14_MainMenuOptions ==
  [][ \A p \in Turns :
        ShowsMainMenu(p) =>
          LET u == turn'[p].uid
              used == u \in DOMAIN users' /\ users'[u].is_trial_used # 0
              shown == {tok.verb : tok \in turn'[p].keyboard}
          IN  /\ \A tok \in turn'[p].keyboard : tok = WordToken(tok.verb)
              /\ shown \ {"admin"} =
                    IF used
                    THEN {"plans", "account", "referrals", "promocode", "help",
                          "support", "change_lang"}
                    ELSE {"trial", "plans", "about", "support", "change_lang"}
              /\ "admin" \in shown <=> u \in ADMIN_IDS ]_vars

\* The admin, the trial used, is shown the second menu with Admin added.
C14_Witness ==
  /\ turn[1].pc = "render"
  /\ turn[1].screen = "welcome_back"
  /\ turn[1].uid = 2
  /\ 2 \in DOMAIN users
  /\ users[2].is_trial_used = 1
  /\ WordToken("admin") \in turn[1].keyboard
  /\ WordToken("account") \in turn[1].keyboard
  /\ WordToken("trial") \notin turn[1].keyboard

\* The start handler runs in turn p in this step.
StartRuns(p) ==
  /\ turn[p].pc = "idle"
  /\ turn'[p].pc = "render"
  /\ turn'[p].data.verb = "none"

\* C15: on start, an identity with no user record is shown the language
\* pick and start creates no user record; an identity with a record is
\* shown the main menu.
C15_StartScreens ==
  [][ \A p \in Turns :
        StartRuns(p) =>
          /\ users' = users
          /\ turn'[p].uid \notin DOMAIN users =>
                /\ turn'[p].screen = "language_pick"
                /\ turn'[p].keyboard =
                     {[NoToken EXCEPT !.verb = "lang", !.prefix = TRUE, !.lang = l] :
                        l \in {"en", "ru", "hi", "ar"}}
          /\ turn'[p].uid \in DOMAIN users =>
                /\ turn'[p].screen = "welcome_back"
                /\ WordToken("plans") \in turn'[p].keyboard ]_vars

\* An unknown identity started with a referral argument and is shown the
\* language pick; it still has no record.
C15_Witness ==
  /\ turn[1].pc = "render"
  /\ turn[1].data.verb = "none"
  /\ turn[1].screen = "language_pick"
  /\ turn[1].uid = 1
  /\ 1 \notin DOMAIN users
  /\ 1 \in DOMAIN user_data

\* The language selection of turn p runs in this step.
LangRuns(p) == BodyRuns(p) /\ turn[p].data.verb = "lang" /\ turn[p].data.prefix

\* C16: the pending referrer captured by the start of an unknown identity
\* is used exactly once: the first language selection of the identity
\* creates its record and writes the pending value as the record's
\* referrer, and from then on no step (no start, with or without a referral
\* argument, and no language selection) changes the record's referrer or
\* the pending value.
C16_ReferrerWrittenOnce ==
  [][ /\ \A p \in Turns :
           (LangRuns(p) /\ turn[p].uid \notin DOMAIN users)
           => /\ turn[p].uid \in DOMAIN users'
              /\ users'[turn[p].uid].referrer_id =
                    (IF turn[p].uid \in DOMAIN user_data
                     THEN user_data[turn[p].uid] ELSE {})
      /\ \A u \in DOMAIN users :
           /\ u \in DOMAIN users'
           /\ users'[u].referrer_id = users[u].referrer_id
           /\ (u \in DOMAIN user_data' <=> u \in DOMAIN user_data)
           /\ u \in DOMAIN user_data => user_data'[u] = user_data[u] ]_vars

\* C17: the screens that end a trial request and a purchase (the trial
\* result, granted or already used, and the payment result, demo and
\* gateway) each offer the way back to the main menu.
C17_ResultOffersBack ==
  \A p \in Turns :
    (turn[p].pc = "render"
     /\ turn[p].screen \in {"trial_activated", "trial_used", "payment_success"})
    => [NoToken EXCEPT !.verb = "back_main"] \in turn[p].keyboard

\* C18: a user record comes into being only in a language selection by an
\* identity that has none; a language selection by a known identity changes
\* the language field of its record and nothing else in the table; no step
\* deletes a user record.
C18_UserCreation ==
  [][ /\ DOMAIN users \subseteq DOMAIN users'
      /\ \A u \in DOMAIN users' \ DOMAIN users :
           \E p \in Turns : LangRuns(p) /\ turn[p].uid = u
      /\ \A p \in Turns :
           (LangRuns(p) /\ turn[p].uid \in DOMAIN users)
           => users' = [users EXCEPT ![turn[p].uid].language_code = turn[p].data.lang]
    ]_vars

\* A known identity with the trial used and a purchase made selected
\* English: the other fields are as they were.
C18_Witness ==
  /\ turn[1].pc = "render"
  /\ turn[1].data = LangToken("en")
  /\ turn[1].screen = "welcome_back"
  /\ turn[1].uid = 1
  /\ 1 \in DOMAIN users
  /\ users[1].language_code = "en"
  /\ users[1].is_trial_used = 1
  /\ users[1].total_paid = 27
  /\ users[1].referrer_id = Some(PyIntOf(2))

\* C19: the trial-used flag is monotonic: once true it never turns false,
\* and the only step that changes it is a trial grant (purchases, gateway
\* confirmations, language selections and failures leave it as it is).
C19_TrialFlagMonotonic ==
  [][ \A u \in DOMAIN users :
        /\ u \in DOMAIN users'
        /\ users'[u].is_trial_used >= users[u].is_trial_used
        /\ users'[u].is_trial_used # users[u].is_trial_used
             => \E p \in Turns : /\ turn[p].pc = "answered"
                                 /\ turn[p].data.verb = "trial"
                                 /\ turn[p].uid = u
                                 /\ turn'[p].screen = "trial_activated" ]_vars

\* A user who never asked for the trial bought twice, one purchase through
\* the gateway: the flag is still false.
C19_Witness ==
  /\ 1 \in DOMAIN users
  /\ users[1].is_trial_used = 0
  /\ users[1].total_paid = 54
  /\ Len(payments) = 1

\* C20: across trial grants, demo purchases and gateway confirmations a
\* user's expiry never decreases; a trial granted to a user whose expiry is
\* later than now + trial days does not shorten it.
C20_ExpiryNeverDecreases ==
  [][ \A u \in DOMAIN users :
        (u \in DOMAIN users' /\ users[u].subscription_end # NULL)
        => users'[u].subscription_end >= users[u].subscription_end ]_vars

\* C21: every subscription row and every payment row names an identity
\* that has a user record; a demo payment token or a gateway confirmation
\* for an identity that never selected a language appends no row.
C21_RowsReferenceUsers ==
  /\ \A j \in 1..Len(subscriptions) : subscriptions[j].user_id \in DOMAIN users
  /\ \A j \in 1..Len(payments) : payments[j].user_id \in DOMAIN users

\* The sum of the prices of the subscription rows of u among the first n.
RECURSIVE PriceSum(_, _)
PriceSum(u, n) ==
  IF n = 0 THEN 0
  ELSE PriceSum(u, n - 1)
       + (IF subscriptions[n].user_id = u THEN subscriptions[n].price ELSE 0)

\* C22: each existing user's total_paid equals the sum of the prices of
\* that user's subscription rows.
C22_TotalPaidIsPriceSum ==
  \A u \in DOMAIN users : users[u].total_paid = PriceSum(u, Len(subscriptions))

\* C27: a referrer that is set names another user: it is never the user's
\* own identity and never an identity without a user record.
C27_ReferrerIsAnotherUser ==
  \A u \in DOMAIN users :
    \A r \in users[u].referrer_id :
      \E v \in DOMAIN users : v # u /\ r = PyIntOf(v)

\* C26: an abandoned purchase commits nothing: when a demo purchase or a
\* gateway confirmation fails after its UPDATE of the user's expiry and
\* total_paid and before its commit, the stored users table is the one from
\* before the turn and no subscription row was added.
C26_NoPartialCommit ==
  [][ \A p \in Turns :
        (/\ turn[p].pc \in {"idle", "answered"}
         /\ turn'[p].pc = "failed"
         /\ turn'[p].data.verb = "pay"
         /\ turn'[p].info >= 1)
        => (users' = users /\ subscriptions' = subscriptions) ]_vars

\* A demo purchase of a user who had bought before failed at its INSERT
\* into subscriptions: the user's expiry and total_paid are those of the
\* first purchase and the table holds its one row.
C26_Witness ==
  \E p \in Turns :
    /\ turn[p].pc = "failed"
    /\ turn[p].data.verb = "pay"
    /\ turn[p].data.method = "card"
    /\ turn[p].info = 1
    /\ turn[p].uid \in DOMAIN users
    /\ users[turn[p].uid].total_paid = 27
    /\ users[turn[p].uid].subscription_end = 60
    /\ Len(subscriptions) = 1

\* C28: the demo path and the gateway path are the same entitlement
\* transition: a completed purchase of (plan, duration) by an existing user
\* with expiry E at time now sets the expiry to max(E, now) + duration
\* (now + duration with no expiry), adds the catalog price to total_paid and
\* appends one subscription row with the plan's name and devices, the
\* duration, the price and the new expiry, on either path; the paths differ
\* only in the row's payment method and tag and in the payment row, which
\* the gateway path appends and the demo path does not.
C28_SameTransition ==
  [][ \A p \in Turns :
        (/\ turn[p].pc \in {"idle", "answered"}
         /\ turn'[p].pc = "render"
         /\ turn'[p].screen = "payment_success"
         /\ turn'[p].uid \in DOMAIN users)
        => LET u == turn'[p].uid
               tok == turn'[p].data
               gateway == turn[p].pc = "idle"
               E == users[u].subscription_end
               new_end == (IF E # NULL /\ E > now THEN E ELSE now) + tok.duration
               price == PriceOf(tok.plan_index, tok.duration)
           IN  /\ users' = [users EXCEPT ![u].subscription_end = new_end,
                                           ![u].total_paid = @ + price]
               /\ subscriptions' = Append(subscriptions,
                    [user_id |-> u, plan_name |-> PlanAt(tok.plan_index).name,
                     devices |-> PlanAt(tok.plan_index).devices,
                     duration_days |-> tok.duration, price |-> price,
                     payment_method |-> IF gateway THEN "telegram_stars"
                                                   ELSE tok.method,
                     expires_at |-> new_end,
                     config_url |-> IF gateway THEN "paid" ELSE "sub"])
               /\ IF gateway
                  THEN /\ Len(payments') = Len(payments) + 1
                       /\ payments'[Len(payments')].amount = price
                       /\ payments'[Len(payments')].user_id = u
                  ELSE payments' = payments ]_vars

\* The same user bought the same plan and duration once on each path: the
\* two rows agree in plan, devices, duration and price, each extends the
\* expiry by the duration, and only the gateway purchase left a payment row.
C28_Witness ==
  /\ Len(subscriptions) = 2
  /\ Len(payments) = 1
  /\ subscriptions[1].payment_method = "card"
  /\ subscriptions[2].payment_method = "telegram_stars"
  /\ subscriptions[1].user_id = subscriptions[2].user_id
  /\ subscriptions[1].plan_name = subscriptions[2].plan_name
  /\ subscriptions[1].devices = subscriptions[2].devices
  /\ subscriptions[1].duration_days = subscriptions[2].duration_days
  /\ subscriptions[1].price = subscriptions[2].price
  /\ subscriptions[2].expires_at = subscriptions[1].expires_at + 60
  /\ subscriptions[1].user_id \in DOMAIN users
  /\ users[subscriptions[1].user_id].subscription_end = subscriptions[2].expires_at

\* The callback data some screen offers as a button: the two main menus and
\* the admin button, the language pick, the plan list, the duration lists,
\* the payment method lists, the trial results and the payment results.
Offered(tok) ==
  \/ tok \in MenuBeforeTrial \cup MenuAfterTrial \cup {WordToken("admin")}
  \/ tok \in GetLanguageKeyboard \cup PlansKeyboard \cup TrialKeyboard
  \/ tok \in DemoResultKeyboard \cup GatewayResultKeyboard
  \/ \E j \in 1..Len(PLANS_plans) :
        \/ tok \in DurationsKeyboard(j - 1)
        \/ \E d \in PLANS_durations : tok \in PaymentMethodsKeyboard(j - 1, d)

\* C23: every token a screen offers is routed to a screen render when a
\* user presses it: no offered option is silently ignored (the account
\* view, offered by the main menu after the trial, included).
C23_OfferedIsRouted ==
  [][ \A p \in Turns :
        (BodyRuns(p) /\ Offered(turn[p].data) /\ turn[p].uid \in DOMAIN users)
        => turn'[p].pc = "render" ]_vars

\* Turn p handles pure navigation in this step: plans, plan_<i>,
\* dur_<i>_<d>, back_main, change_lang, the choice of the gateway payment
\* method, or the start of a known identity.
NavigationRuns(p) ==
  \/ /\ BodyRuns(p)
     /\ \/ turn[p].data.verb \in {"plans", "back_main", "change_lang"}
           /\ ~turn[p].data.prefix
        \/ turn[p].data.verb \in {"plan", "dur"} /\ turn[p].data.prefix
        \/ /\ turn[p].data.verb = "pay" /\ turn[p].data.prefix
           /\ turn[p].data.method = "stars"
  \/ StartRuns(p) /\ turn'[p].uid \in DOMAIN users

\* C24: pure navigation leaves the ledger unchanged: it changes no field of
\* any user and appends no subscription or payment row; choosing the
\* gateway payment method only issues an invoice, the entitlement changes
\* when the confirmation is handled.
C24_NavigationKeepsLedger ==
  [][ \A p \in Turns :
        NavigationRuns(p)
        => (users' = users /\ subscriptions' = subscriptions
                           /\ payments' = payments) ]_vars

\* A user holding a paid entitlement chose the gateway method again: the
\* invoice is out and the record still shows the one demo purchase.
C24_Witness ==
  /\ turn[1].pc = "render"
  /\ turn[1].screen = "invoice"
  /\ turn[1].uid = 1
  /\ turn[1].data = PayToken("stars", 2, 60)
  /\ Len(invoices) = 1
  /\ 1 \in DOMAIN users
  /\ users[1].subscription_end = 60
  /\ users[1].total_paid = 27
  /\ Len(subscriptions) = 1
  /\ payments = << >>

\* The identity whose turn p takes this step.
ActorOf(p) == IF turn[p].pc = "idle" THEN turn'[p].uid ELSE turn[p].uid

\* The rows of a table that name identity b, in order.
SubscriptionsOf(tbl, b) == SelectSeq(tbl, LAMBDA r : r.user_id = b)

\* C25: identities are independent: a step taken by a turn of identity A
\* (a failing one included, and A's creation with B as referrer included)
\* leaves B's user record, B's subscription rows and B's payment rows as
\* they were, however the turns of A and B interleave.
C25_IdentitiesIndependent ==
  [][ \A b \in {1, 2} :
        (\A p \in Turns : turn'[p] # turn[p] => ActorOf(p) # b)
        => /\ b \in DOMAIN users <=> b \in DOMAIN users'
           /\ b \in DOMAIN users => users'[b] = users[b]
           /\ SubscriptionsOf(subscriptions', b) = SubscriptionsOf(subscriptions, b)
           /\ SubscriptionsOf(payments', b) = SubscriptionsOf(payments, b) ]_vars

\* Identity 1, created with 2 as its referrer, has bought while a turn of
\* identity 2 is in flight; 2's record shows its own trial and nothing of
\* 1's purchase.
C25_Witness ==
  /\ 1 \in DOMAIN users
  /\ 2 \in DOMAIN users
  /\ users[1].referrer_id = Some(PyIntOf(2))
  /\ users[1].total_paid = 27
  /\ users[1].subscription_end = 60
  /\ users[2].is_trial_used = 1
  /\ users[2].subscription_end = 3
  /\ users[2].total_paid = 0
  /\ \E p, q \in Turns : /\ turn[p].pc = "render" /\ turn[p].uid = 1
                         /\ turn[p].screen = "payment_success"
                         /\ turn[q].pc = "answered" /\ turn[q].uid = 2
====
